---- MODULE Spec2Model ----
(***************************************************************************)
(* Atlas Edge: the offline record store (services/offline_storage.py),     *)
(* the backend sync client (services/api_sync.py) and the orchestrating    *)
(* attendance service (attendance_service.py).                             *)
(*                                                                         *)
(* A stored record is a Python dict; it is modelled as a function from     *)
(* field names to values, so that a record may lack the "synced" key.      *)
(* Only the fields the store and the sync client read are kept: card_id,   *)
(* timestamp and synced (device_id, device_name and location are the same  *)
(* configuration strings on every record of one device).  card_id numbers  *)
(* the scans, so that two records of one run can be told apart even when   *)
(* their timestamps collide.                                               *)
(***************************************************************************)
EXTENDS Integers, Sequences, FiniteSets, TLC

(***************************************************************************)
(* Bounds of the model.                                                    *)
(***************************************************************************)
\* scans handled by the card-scan thread in one run
MaxScans == 2
\* iterations of the periodic sync loop in one run
MaxCycles == 2
\* timestamps of the records offered to the store on its own
MaxStamp == 2
\* largest configured max_offline_records tried on the store on its own
MaxCapacity == 2

\* the max_offline_records and min_records_for_sync the threaded service is
\* configured with (its batch_size is any size up to max_offline_records)
ServiceCapacities == {1, 2}
ServiceThresholds == {1, 2}

\* the max_offline_records of a service that starts on an existing store
\* file, and the numbers of records that file may hold
PassCapacities == {3}
PassLengths == {0, 1, 2, 3}
MaxErrors == 2
LoopLengths == {0, 1, 2}
SyncInterval == 1

None == "None"

(***************************************************************************)
(* Python helpers.                                                         *)
(***************************************************************************)
\* dict.get(key, default)
Get(d, key, default) == IF key \in DOMAIN d THEN d[key] ELSE default

\* d[key] = value on a dict
Put(d, key, value) == (key :> value) @@ d

\* the elements of a list
Range(s) == {s[i] : i \in 1..Len(s)}

\* s[-n:]  (a start of -0 is the start 0: the whole list)
LastN(s, n) ==
    LET start == IF n = 0 THEN 0
                 ELSE IF Len(s) - n < 0 THEN 0 ELSE Len(s) - n
    IN  SubSeq(s, start + 1, Len(s))

\* s[i:i + k]  (0-based start, clipped at the end of the list)
Slice(s, i, k) == SubSeq(s, i + 1, IF i + k < Len(s) THEN i + k ELSE Len(s))

\* not r.get('synced', False)
NotSynced(r) == ~ Get(r, "synced", FALSE)

RECURSIVE Concat(_)
Concat(ss) == IF ss = <<>> THEN <<>> ELSE Head(ss) \o Concat(Tail(ss))

(***************************************************************************)
(* OfflineStorage: what each call computes from the collection it read.    *)
(***************************************************************************)
\* add_record, lines 73-75: the record as it is appended
WithSyncedFlag(record) ==
    IF "synced" \in DOMAIN record THEN record ELSE Put(record, "synced", FALSE)

TrimOneTooMany(records, max) ==
    IF Len(records) > max THEN LastN(records, max + 1) ELSE records

\* add_record, lines 79-82: the trim
Trim(records, max) ==
    IF Len(records) > max THEN LastN(records, max) ELSE records

\* add_record inserting the new record at the front
add_record_at_front(records, record, max) ==
    Trim(<<WithSyncedFlag(record)>> \o records, max)

\* add_record trimming the newest records
add_record_keep_oldest(records, record, max) ==
    LET appended == Append(records, WithSyncedFlag(record))
    IN  IF Len(appended) > max THEN SubSeq(appended, 1, max) ELSE appended

\* add_record: the collection written, from the collection read
add_record(records, record, max) ==
    Trim(Append(records, WithSyncedFlag(record)), max)

\* the list of get_unsynced_records, newest record first
Reverse(s) == [i \in 1..Len(s) |-> s[Len(s) + 1 - i]]

get_unsynced_newest_first(records) == Reverse(SelectSeq(records, NotSynced))

\* get_unsynced_records returning every stored record
get_unsynced_all(records) == records

\* get_unsynced_records: the list returned, from the collection read
get_unsynced_records(records) == SelectSeq(records, NotSynced)

\* mark_as_synced inverting the flag of the matching records
mark_as_synced_toggle(records, record_ids) ==
    [i \in 1..Len(records) |->
        IF Get(records[i], "timestamp", None) \in Range(record_ids)
        THEN Put(records[i], "synced", NotSynced(records[i]))
        ELSE records[i]]

\* mark_as_synced marking every record when given any id
mark_as_synced_all(records, record_ids) ==
    [i \in 1..Len(records) |->
        IF record_ids # <<>>
        THEN Put(records[i], "synced", TRUE)
        ELSE records[i]]

\* mark_as_synced: the collection written, from the collection read
mark_as_synced(records, record_ids) ==
    [i \in 1..Len(records) |->
        IF Get(records[i], "timestamp", None) \in Range(record_ids)
        THEN Put(records[i], "synced", TRUE)
        ELSE records[i]]

\* clear_synced_records emptying the store
clear_all_records(records) == <<>>

\* clear_synced_records: the collection written, and the count returned
clear_synced_records(records) == SelectSeq(records, NotSynced)

\* the records that clear_synced_records leaves out
clear_synced_dropped(records) ==
    SelectSeq(records, LAMBDA r : ~ NotSynced(r))

clear_synced_removed(records) ==
    Len(records) - Len(clear_synced_records(records))

\* create_attendance_record (rfid_reader.py)
create_attendance_record(card_id, timestamp) ==
    [card_id |-> card_id, timestamp |-> timestamp, synced |-> FALSE]

(***************************************************************************)
(* The backend's answer to one POST /attendance/batch.  status is "ok"     *)
(* (200/201), "error" (any other status) or "exception" (a transport       *)
(* error).  A body with has_results carries results.records (one entry     *)
(* with success = true for each position whose outcome is "ok"),           *)
(* results.errors (one entry for each position whose outcome is "err";     *)
(* an "omit" position is mentioned in neither list) and, when counts is    *)
(* set, results.successful and results.failed.                             *)
(***************************************************************************)
Outcomes(n) == [1..n -> {"ok", "err", "omit"}]

BatchResponses(n) ==
    [status : {"ok"}, has_results : {TRUE}, outcome : Outcomes(n),
     counts : BOOLEAN]
    \cup [status : {"ok", "error", "exception"}, has_results : {FALSE},
          outcome : {[i \in 1..n |-> "omit"]}, counts : {FALSE}]

\* send_batch_attendance, lines 160-181: the answers of a backend that is up
\* and accepts every record of the batch
AcceptingResponses(n) ==
    {r \in BatchResponses(n) :
        /\ r.status = "ok"
        /\ r.has_results => \A i \in 1..n : r.outcome[i] = "ok"}

\* history: how a batch was answered: "failed" (a status other than 200/201
\* or a transport error), or a 200/201 body "detailed" (with 'results') or
\* "plain" (without)
Answered(response) ==
    IF response.status # "ok" THEN "failed"
    ELSE IF response.has_results THEN "detailed" ELSE "plain"

Positions(response, what) ==
    SelectSeq([i \in 1..Len(response.outcome) |-> i],
              LAMBDA i : response.outcome[i] = what)

\* the records the backend stored: all of them when it answers without
\* per-record results (as example_backend_api.py does), none on an error
AcceptedBy(records, response) ==
    IF response.status # "ok" THEN <<>>
    ELSE IF response.has_results
         THEN [j \in 1..Len(Positions(response, "ok")) |->
                  records[Positions(response, "ok")[j]]]
         ELSE records

NoResult == [success |-> 0, failed |-> 0, synced_ids |-> <<>>, errors |-> <<>>]

\* send_batch_attendance, lines 166-181: synced_ids of a 200/201 answer
BatchSyncedIds(records, response) ==
    IF response.has_results
    THEN [j \in 1..Len(Positions(response, "ok")) |->
             records[Positions(response, "ok")[j]].timestamp]
    ELSE [i \in 1..Len(records) |-> records[i].timestamp]

\* send_batch_attendance, lines 173-178: errors of a 200/201 answer
BatchErrors(records, response) ==
    IF response.has_results
    THEN [j \in 1..Len(Positions(response, "err")) |->
             [card_id |-> records[Positions(response, "err")[j]].card_id,
              timestamp |-> records[Positions(response, "err")[j]].timestamp]]
    ELSE <<>>

\* send_batch_attendance with an error status taken for a success
send_batch_any_status(records, response) ==
    IF records = <<>> THEN NoResult
    ELSE [success |-> Len(records), failed |-> 0,
          synced_ids |-> BatchSyncedIds(records, response),
          errors |-> BatchErrors(records, response)]

\* send_batch_attendance taking a 200/201 answer without 'results' for a
\* failure of the whole batch
send_batch_plain_as_failed(records, response) ==
    IF records = <<>> THEN NoResult
    ELSE IF response.status = "ok" /\ response.has_results
    THEN [success |-> IF response.counts
                      THEN Len(Positions(response, "ok"))
                      ELSE Len(records),
          failed |-> IF response.counts
                     THEN Len(Positions(response, "err"))
                     ELSE 0,
          synced_ids |-> BatchSyncedIds(records, response),
          errors |-> BatchErrors(records, response)]
    ELSE [success |-> 0, failed |-> Len(records),
          synced_ids |-> <<>>, errors |-> <<>>]

\* send_batch_attendance: the result returned for one answer
send_batch_attendance(records, response) ==
    IF records = <<>> THEN NoResult
    ELSE IF response.status = "ok"
    THEN [success |-> IF response.has_results /\ response.counts
                      THEN Len(Positions(response, "ok"))
                      ELSE Len(records),
          failed |-> IF response.has_results /\ response.counts
                     THEN Len(Positions(response, "err"))
                     ELSE 0,
          synced_ids |-> BatchSyncedIds(records, response),
          errors |-> BatchErrors(records, response)]
    ELSE [success |-> 0, failed |-> Len(records),
          synced_ids |-> <<>>, errors |-> <<>>]

\* chunks that overlap by one record
ChunkOverlapping(records, i, chunk_size) == Slice(records, i, chunk_size + 1)

\* sync_records_in_chunks, line 224: the chunk that starts at offset i
Chunk(records, i, chunk_size) == Slice(records, i, chunk_size)

\* totals that keep the last chunk's result only
AggregateKeepLast(total, r) == r

\* sync_records_in_chunks, lines 232-235: one chunk's result added
Aggregate(total, r) ==
    [success |-> total.success + r.success,
     failed |-> total.failed + r.failed,
     synced_ids |-> total.synced_ids \o r.synced_ids,
     errors |-> total.errors \o r.errors]

(***************************************************************************)
(* State.                                                                  *)
(***************************************************************************)
VARIABLES
    storage_file,          \* the JSON list in the offline log file
    file_state,            \* whether the file is there and parses as JSON
    is_online,             \* APISync.is_online
    last_check,            \* APISync.last_check
    last_sync,             \* APISync.last_sync
    probe,                 \* the answer each thread holds inside check_connection
    dash_pc,               \* where the dashboard process is in its handler
    dash_unsynced,         \* trigger_sync: unsynced
    dash_i,                \* the dashboard's sync_records_in_chunks: i
    dash_result,           \* trigger_sync: result
    dash_records,          \* the dashboard's store call: records
    running,               \* AttendanceService.running
    stop_pc,               \* where the main thread is in stop()
    reader,                \* whether the RFID reader's device is held
    loop_errors,           \* errors logged by periodic_sync or by stop()
    slept,                 \* seconds periodic_sync slept before this pass
    h_final,               \* history: passes started by stop()
    beat,                  \* what became of the last iteration's heartbeat
    sync_thread,           \* the periodic thread: looping, exited or killed
    final,                 \* the locals of the pass stop() makes
    orch_last_sync,        \* AttendanceService.last_sync: the pass that set
                           \* it last, 0 for None
    max_records,           \* OfflineStorage.max_records
    batch_size,            \* AttendanceService.batch_size
    immediate_sync,        \* AttendanceService.immediate_sync
    min_records_for_sync,  \* AttendanceService.min_records_for_sync
    cleanup_after_sync,    \* AttendanceService.cleanup_after_sync
    scan_pc,               \* where the card-scan thread is in handle_attendance
    record,                \* handle_attendance: record
    scan_records,          \* the scan thread's store call: records
    n_scans,               \* cards scanned so far
    clock,                 \* datetime.utcnow() at the last scan
    sync_pc,               \* where the periodic thread is in periodic_sync
    unsynced,              \* sync_offline_records: unsynced
    chunk_i,               \* sync_records_in_chunks: i
    result,                \* sync_records_in_chunks: the running totals
    sync_records,          \* the periodic thread's store call: records
    n_cycles,              \* iterations of periodic_sync started so far
    call,                  \* the last call made on a store used on its own
    h_adds,                \* history: the records added to an empty store
    h_returned,            \* history: card ids whose add_record has returned
    h_evicted,             \* history: card ids trimmed by an add_record
    h_cleared,             \* history: card ids removed as synced by a clear
    h_stored,              \* history: card ids the file has ever held
    h_marked,              \* history: card ids the file has held as synced
    h_accepted,            \* history: card ids in order of first acceptance
    h_probe,               \* history: what the current pass's probe returned
    h_run,                 \* history: chunks sent by the current chunked run
    h_run_accepted,        \* history: card ids accepted in the current run
    h_confirmed,           \* history: records reported accepted, this pass
    h_fallback,            \* history: records assumed accepted, this pass
    h_batches,             \* history: the answer and the result of each chunk
    h_start                \* history: the store the current pass read

config == <<max_records, batch_size, immediate_sync, min_records_for_sync,
            cleanup_after_sync>>
scan_vars == <<scan_pc, record, scan_records, n_scans, clock>>
sync_vars == <<sync_pc, unsynced, chunk_i, result, sync_records, n_cycles>>
pass_history == <<h_probe, h_run, h_run_accepted, h_confirmed, h_fallback,
                  h_batches, h_start>>
store_history == <<h_returned, h_evicted, h_cleared>>
\* the connectivity fields of the sync client; the handlers of the service
\* read check_connection's return value, never these fields
client_vars == <<is_online, last_check, last_sync, probe>>
dash_vars == <<dash_pc, dash_unsynced, dash_i, dash_result, dash_records>>
life_vars ==
    <<running, stop_pc, reader, loop_errors, slept, h_final, orch_last_sync,
      beat>>
shut_vars == <<sync_thread, final>>
env_vars == <<client_vars, dash_vars, life_vars, shut_vars>>
vars == <<storage_file, file_state, config, env_vars, scan_vars, sync_vars, call, h_adds,
          store_history, h_stored, h_marked, h_accepted, pass_history>>

CardIds(records) == {records[i].card_id : i \in 1..Len(records)}

\* s followed by the elements of t that s does not hold yet
RECURSIVE AppendNew(_, _)
AppendNew(s, t) ==
    IF t = <<>> THEN s
    ELSE AppendNew(IF Head(t) \in Range(s) THEN s ELSE Append(s, Head(t)),
                   Tail(t))

StampsOf(S) == {r.timestamp : r \in S}

CardSeq(records) == [i \in 1..Len(records) |-> records[i].card_id]

\* _read_records, lines 44-57: the list in the file, or [] when the file
\* cannot be opened or does not parse
read_records_keeps_backlog(state, contents) == contents

read_records(state, contents) == IF state = "ok" THEN contents ELSE <<>>

\* APISync.__init__, lines 43-48
ClientInit ==
    /\ is_online = FALSE
    /\ last_check = None
    /\ last_sync = None
    /\ probe = [scan |-> "none", sync |-> "none"]

\* web/app.py: no request is being served
DashIdle ==
    /\ dash_pc = "idle"
    /\ dash_unsynced = <<>>
    /\ dash_i = 0
    /\ dash_result = NoResult
    /\ dash_records = <<>>

\* start(), lines 209 and 230-231: the service is running, the periodic
\* thread has been started and the reader is open
\* stop() is not in its final pass
NoFinalPass ==
    [pc |-> "none", unsynced |-> <<>>, i |-> 0, result |-> NoResult,
     records |-> <<>>]

Serving ==
    /\ running = TRUE
    /\ stop_pc = "serving"
    /\ reader = "open"
    /\ loop_errors = 0
    /\ slept = 0
    /\ h_final = 0
    /\ orch_last_sync = 0
    /\ beat = [sent |-> FALSE, answer |-> "none", value |-> FALSE]
    /\ sync_thread = "looping"
    /\ final = NoFinalPass

\* every write of the file, with the history of what the file has held
Write(records) ==
    /\ storage_file' = records
    /\ file_state' = "ok"
    /\ h_stored' = h_stored \cup CardIds(records)
    /\ h_marked' = h_marked \cup CardIds(clear_synced_dropped(records))

\* no card scanned yet and no sync pass started
Idle ==
    /\ ClientInit
    /\ DashIdle
    /\ Serving
    /\ scan_pc = "wait"
    /\ record = None
    /\ scan_records = <<>>
    /\ n_scans = 0
    /\ clock = 0
    /\ sync_pc = "sleep"
    /\ unsynced = <<>>
    /\ chunk_i = 0
    /\ result = NoResult
    /\ sync_records = <<>>
    /\ n_cycles = 0
    /\ call = [op |-> "none", arg |-> None, returned |-> None,
               dropped |-> <<>>, before |-> <<>>, state |-> None]
    /\ h_returned = {}
    /\ h_evicted = {}
    /\ h_cleared = {}
    /\ h_stored = {}
    /\ h_marked = {}
    /\ h_accepted = <<>>
    /\ h_probe = "none"
    /\ h_run = <<>>
    /\ h_run_accepted = <<>>
    /\ h_confirmed = {}
    /\ h_fallback = {}
    /\ h_batches = <<>>
    /\ h_start = <<>>

\* _ensure_storage_file, lines 41-42: the service starts on a new, empty
\* store file
Started ==
    /\ storage_file = <<>>
    /\ file_state = "ok"
    /\ Idle

\* AttendanceService.__init__, lines 40-45, and OfflineStorage.__init__
ServiceInit ==
    /\ Started
    /\ max_records \in ServiceCapacities
    /\ batch_size \in 1..max_records
    /\ immediate_sync \in BOOLEAN
    /\ min_records_for_sync \in ServiceThresholds
    /\ cleanup_after_sync \in BOOLEAN
    /\ h_adds = [only_adds |-> FALSE, records |-> <<>>]

(***************************************************************************)
(* The card-scan thread: start_reading calls handle_attendance for each    *)
(* card.  Each _read_records and each _write_records is one step: the      *)
(* file lock is taken and released inside each of them.                    *)
(***************************************************************************)
\* a periodic thread that keeps the file locked from its probe to the end
\* of its batch deliveries
sync_holds_lock_over_network(pc) == pc \in {"check", "get", "chunk"}

\* _read_records, lines 47-51, and _write_records, lines 62-65: flock is
\* taken and released inside the one read or write, so between its steps
\* the periodic thread holds no lock on the file
sync_holds_lock(pc) == FALSE

\* a handler that probes and sends before it saves
HandleEntryProbeFirst == "check"

\* handle_attendance, line 92: the handler's first call is add_record
HandleEntry == "add_read"

\* handle_attendance, lines 96-107: where the handler goes after the add
AfterAdd(immediate) == IF immediate THEN "check" ELSE "wait"

\* handle_attendance, lines 98-106: after the probe
AfterProbe(online) == IF online THEN "send" ELSE "wait"

\* handle_attendance, lines 100-104: after send_attendance
AfterSend(success) == IF success THEN "mark_read" ELSE "wait"

\* start_reading: a card is read and its record created; that two scans
\* may fall on the same clock reading is the clock's choice
Scan ==
    /\ scan_pc = "wait"
    /\ n_scans < MaxScans
    /\ \E now \in {clock, clock + 1} :
        /\ now >= 1
        /\ clock' = now
        /\ record' = create_attendance_record(n_scans + 1, now)
    /\ n_scans' = n_scans + 1
    /\ scan_pc' = HandleEntry
    /\ UNCHANGED <<storage_file, file_state, config, env_vars, scan_records, sync_vars,
                   call, h_adds, store_history, h_stored, h_marked, h_accepted,
                   pass_history>>

\* add_record, line 71
ScanAddRead ==
    /\ scan_pc = "add_read"
    /\ ~ sync_holds_lock(sync_pc)
    /\ scan_records' = read_records(file_state, storage_file)
    /\ scan_pc' = "add_write"
    /\ UNCHANGED <<storage_file, file_state, config, env_vars, record, n_scans, clock,
                   sync_vars, call, h_adds, store_history, h_stored, h_marked, h_accepted, pass_history>>

\* add_record, lines 73-85, and the branch of handle_attendance after it
ScanAddWrite ==
    /\ scan_pc = "add_write"
    /\ ~ sync_holds_lock(sync_pc)
    /\ Write(add_record(scan_records, record, max_records))
    /\ h_evicted' = h_evicted \cup
          (CardIds(Append(scan_records, record))
             \ CardIds(add_record(scan_records, record, max_records)))
    /\ h_returned' = h_returned \cup {record.card_id}
    /\ scan_pc' = AfterAdd(immediate_sync)
    /\ scan_records' = <<>>
    /\ UNCHANGED <<config, env_vars, record, n_scans, clock, sync_vars, call, h_adds,
                   h_cleared, h_accepted, pass_history>>

\* check_connection, called from handle_attendance line 98; answers are
\* the results the network may give the probe
ScanProbeOn(answers) ==
    /\ scan_pc = "check"
    /\ \E online \in answers :
        /\ scan_pc' = AfterProbe(online)
    /\ UNCHANGED <<storage_file, file_state, config, env_vars, record, scan_records, n_scans, clock,
                   sync_vars, call, h_adds, store_history, h_stored, h_marked, h_accepted, pass_history>>

\* send_attendance, called from handle_attendance line 99; answers are
\* the outcomes the backend may give the request
ScanSendOn(answers) ==
    /\ scan_pc = "send"
    /\ \E success \in answers :
        /\ h_accepted' = IF success
                         THEN AppendNew(h_accepted, <<record.card_id>>)
                         ELSE h_accepted
        /\ scan_pc' = AfterSend(success)
    /\ UNCHANGED <<storage_file, file_state, config, env_vars, record, scan_records,
                   n_scans, clock, sync_vars, call, h_adds, store_history, h_stored, h_marked,
                   pass_history>>

\* mark_as_synced, line 96, called from handle_attendance line 101
ScanMarkRead ==
    /\ scan_pc = "mark_read"
    /\ ~ sync_holds_lock(sync_pc)
    /\ scan_records' = read_records(file_state, storage_file)
    /\ scan_pc' = "mark_write"
    /\ UNCHANGED <<storage_file, file_state, config, env_vars, record, n_scans, clock,
                   sync_vars, call, h_adds, store_history, h_stored, h_marked, h_accepted, pass_history>>

\* mark_as_synced, lines 99-104
ScanMarkWrite ==
    /\ scan_pc = "mark_write"
    /\ ~ sync_holds_lock(sync_pc)
    /\ Write(mark_as_synced(scan_records, <<record.timestamp>>))
    /\ scan_pc' = "wait"
    /\ scan_records' = <<>>
    /\ UNCHANGED <<config, env_vars, record, n_scans, clock, sync_vars, call, h_adds,
                   store_history, h_accepted, pass_history>>

ScanProbe == ScanProbeOn(BOOLEAN)

ScanSend == ScanSendOn(BOOLEAN)

ScanThread ==
    \/ Scan
    \/ ScanAddRead
    \/ ScanAddWrite
    \/ ScanProbe
    \/ ScanSend
    \/ ScanMarkRead
    \/ ScanMarkWrite

(***************************************************************************)
(* The periodic sync thread: periodic_sync runs sync_offline_records and   *)
(* then the heartbeat, once per sync_interval.                             *)
(***************************************************************************)
\* a pass that goes on whatever the probe returned
AfterCheckIgnored(online) == "get"

\* sync_offline_records, lines 125-127
AfterCheck(online) == IF online THEN "get" ELSE "heartbeat"

\* a pass that sends whatever it finds unsynced
AfterGetNoThreshold(list, min) == IF list = <<>> THEN "heartbeat" ELSE "chunk"

\* sync_offline_records, lines 130-137
AfterGet(list, min) ==
    IF list = <<>> THEN "heartbeat"
    ELSE IF Len(list) < min THEN "heartbeat" ELSE "chunk"

\* a pass that never cleans up
AfterMarkNeverClears(res, cleanup) == "heartbeat"

\* sync_offline_records, lines 160-163
AfterMark(res, cleanup) ==
    IF cleanup /\ res.success > 0 THEN "clear_read" ELSE "heartbeat"

\* sync_offline_records, lines 145-147
AfterChunks(res, cleanup) ==
    IF res.synced_ids # <<>> THEN "mark_read" ELSE AfterMark(res, cleanup)

\* periodic_sync, lines 176-179: the sleep ends and a pass starts
Wake ==
    /\ sync_pc = "sleep"
    /\ n_cycles < MaxCycles
    /\ n_cycles' = n_cycles + 1
    /\ sync_pc' = "check"
    /\ UNCHANGED <<storage_file, file_state, config, env_vars, scan_vars, unsynced,
                   chunk_i, result, sync_records, call, h_adds, store_history,
                   h_stored, h_marked, h_accepted, pass_history>>

\* check_connection, called from sync_offline_records line 125
SyncProbeOn(answers) ==
    /\ sync_pc = "check"
    /\ \E online \in answers :
        /\ sync_pc' = AfterCheck(online)
        /\ h_probe' = IF online THEN "online" ELSE "offline"
    /\ UNCHANGED <<storage_file, file_state, config, env_vars, scan_vars, unsynced, chunk_i, result,
                   sync_records, n_cycles, call, h_adds, store_history, h_stored, h_marked,
                   h_accepted, h_run, h_run_accepted, h_confirmed, h_fallback,
                   h_batches, h_start>>

\* get_unsynced_records and the threshold, lines 129-137
SyncGet ==
    /\ sync_pc = "get"
    /\ LET list == get_unsynced_records(read_records(file_state, storage_file))
           next == AfterGet(list, min_records_for_sync)
       IN  /\ sync_pc' = next
           /\ unsynced' = IF next = "chunk" THEN list ELSE <<>>
    /\ chunk_i' = 0
    /\ result' = NoResult
    /\ h_start' = read_records(file_state, storage_file)
    /\ UNCHANGED <<storage_file, file_state, config, env_vars, scan_vars, sync_records,
                   n_cycles, call, h_adds, store_history, h_stored, h_marked,
                   h_accepted, h_probe, h_run, h_run_accepted, h_confirmed,
                   h_fallback, h_batches>>

\* sync_records_in_chunks, lines 223-239: one chunk is sent and answered;
\* up says whether the backend accepts every record it is sent
SyncChunkOn(up) ==
    /\ sync_pc = "chunk"
    /\ LET chunk == Chunk(unsynced, chunk_i, batch_size)
       IN  \E response \in (IF up THEN AcceptingResponses(Len(chunk))
                                   ELSE BatchResponses(Len(chunk))) :
            LET sent == send_batch_attendance(chunk, response)
                total == Aggregate(result, sent)
                accepted == AcceptedBy(chunk, response)
                more == chunk_i + batch_size < Len(unsynced)
            IN  /\ result' = total
                /\ chunk_i' = chunk_i + batch_size
                /\ sync_pc' = IF more THEN "chunk"
                              ELSE AfterChunks(total, cleanup_after_sync)
                /\ h_accepted' = AppendNew(h_accepted, CardSeq(accepted))
                /\ h_run' = Append(h_run, chunk)
                /\ h_batches' = Append(h_batches,
                                        [answer |-> Answered(response),
                                         result |-> sent])
                /\ h_run_accepted' = h_run_accepted \o CardSeq(accepted)
                /\ h_confirmed' = h_confirmed \cup
                      (IF response.status = "ok" /\ response.has_results
                       THEN Range(accepted) ELSE {})
                /\ h_fallback' = h_fallback \cup
                      (IF response.status = "ok" /\ ~ response.has_results
                       THEN Range(chunk) ELSE {})
    /\ UNCHANGED <<storage_file, file_state, config, env_vars, scan_vars, unsynced,
                   sync_records, n_cycles, call, h_adds, store_history, h_stored, h_marked,
                   h_probe, h_start>>

\* mark_as_synced, line 96, called from sync_offline_records line 146
SyncMarkRead ==
    /\ sync_pc = "mark_read"
    /\ sync_records' = read_records(file_state, storage_file)
    /\ sync_pc' = "mark_write"
    /\ UNCHANGED <<storage_file, file_state, config, env_vars, scan_vars, unsynced,
                   chunk_i, result, n_cycles, call, h_adds, store_history, h_stored, h_marked,
                   h_accepted, pass_history>>

\* mark_as_synced, lines 99-104, and the cleanup test, line 160
SyncMarkWrite ==
    /\ sync_pc = "mark_write"
    /\ Write(mark_as_synced(sync_records, result.synced_ids))
    /\ sync_pc' = AfterMark(result, cleanup_after_sync)
    /\ sync_records' = <<>>
    /\ UNCHANGED <<config, env_vars, scan_vars, unsynced, chunk_i, result,
                   n_cycles, call, h_adds, store_history, h_accepted,
                   pass_history>>

\* clear_synced_records, line 127
SyncClearRead ==
    /\ sync_pc = "clear_read"
    /\ sync_records' = read_records(file_state, storage_file)
    /\ sync_pc' = "clear_write"
    /\ UNCHANGED <<storage_file, file_state, config, env_vars, scan_vars, unsynced,
                   chunk_i, result, n_cycles, call, h_adds, store_history, h_stored, h_marked,
                   h_accepted, pass_history>>

\* clear_synced_records, lines 128-132
SyncClearWrite ==
    /\ sync_pc = "clear_write"
    /\ Write(clear_synced_records(sync_records))
    /\ h_cleared' = h_cleared \cup CardIds(clear_synced_dropped(sync_records))
    /\ sync_pc' = "heartbeat"
    /\ sync_records' = <<>>
    /\ UNCHANGED <<config, env_vars, scan_vars, unsynced, chunk_i, result,
                   n_cycles, call, h_adds, h_returned, h_evicted, h_accepted, pass_history>>

\* periodic_sync, lines 183-184: the probe and the heartbeat that end the
\* iteration; sync_offline_records has returned and its locals are gone
Heartbeat ==
    /\ sync_pc = "heartbeat"
    /\ sync_pc' = "sleep"
    /\ unsynced' = <<>>
    /\ chunk_i' = 0
    /\ result' = NoResult
    /\ h_probe' = "none"
    /\ h_run' = <<>>
    /\ h_run_accepted' = <<>>
    /\ h_confirmed' = {}
    /\ h_fallback' = {}
    /\ h_batches' = <<>>
    /\ h_start' = <<>>
    /\ UNCHANGED <<storage_file, file_state, config, env_vars, scan_vars, sync_records, n_cycles,
                   call, h_adds, store_history, h_stored, h_marked, h_accepted>>

SyncProbe == SyncProbeOn(BOOLEAN)

SyncChunk == SyncChunkOn(FALSE)

SyncThread ==
    \/ Wake
    \/ SyncProbe
    \/ SyncGet
    \/ SyncChunk
    \/ SyncMarkRead
    \/ SyncMarkWrite
    \/ SyncClearRead
    \/ SyncClearWrite
    \/ Heartbeat

Init == ServiceInit

Next == ScanThread \/ SyncThread

Spec == Init /\ [][Next]_vars

(***************************************************************************)
(* The threaded service on a network that is up: every probe succeeds and  *)
(* the backend accepts every record it is sent.  The periodic loop has no  *)
(* last iteration; a thread that can take a step of its handler or of its  *)
(* loop is scheduled in the end (weak fairness); no card has to be         *)
(* scanned.                                                                *)
(***************************************************************************)
\* periodic_sync, lines 176-179, with the iterations not counted
WakeAgain ==
    /\ sync_pc = "sleep"
    /\ sync_pc' = "check"
    /\ UNCHANGED <<storage_file, file_state, config, env_vars, scan_vars, unsynced, chunk_i, result,
                   sync_records, n_cycles, call, h_adds, store_history,
                   h_stored, h_marked, h_accepted, pass_history>>

HandlerUp ==
    \/ ScanAddRead
    \/ ScanAddWrite
    \/ ScanProbeOn({TRUE})
    \/ ScanSendOn({TRUE})
    \/ ScanMarkRead
    \/ ScanMarkWrite

PeriodicUp ==
    \/ WakeAgain
    \/ SyncProbeOn({TRUE})
    \/ SyncGet
    \/ SyncChunkOn(TRUE)
    \/ SyncMarkRead
    \/ SyncMarkWrite
    \/ SyncClearRead
    \/ SyncClearWrite
    \/ Heartbeat

UpNext == Scan \/ HandlerUp \/ PeriodicUp

UpSpec ==
    /\ Init
    /\ [][UpNext]_vars
    /\ WF_vars(HandlerUp)
    /\ WF_vars(PeriodicUp)

(***************************************************************************)
(* The store used on its own: one caller, each call running from its read  *)
(* to its write before the next call starts.  call names the last call,    *)
(* with the collection the store held before it.                           *)
(***************************************************************************)
\* the records a caller may pass to add_record, with or without 'synced'
StoreCards == {1, 2}

StoreInputs ==
    [card_id : StoreCards, timestamp : 1..MaxStamp]
    \cup [card_id : StoreCards, timestamp : 1..MaxStamp, synced : BOOLEAN]

\* the timestamps in S as an ascending list
RECURSIVE Ascending(_)
Ascending(S) ==
    IF S = {} THEN <<>>
    ELSE LET least == CHOOSE x \in S : \A y \in S : x <= y
         IN  <<least>> \o Ascending(S \ {least})

\* the id lists a caller may pass to mark_as_synced; 0 is on no record
StoreIdLists == {Ascending(S) : S \in SUBSET (0..MaxStamp)}

\* history: the oldest records, as many as an add_record wrote fewer than
\* it had after its append
Dropped(records, input, max) ==
    SubSeq(records, 1,
           Len(records) + 1 - Len(add_record(records, input, max)))

service_idle ==
    <<scan_vars, sync_vars, store_history, h_stored, h_marked, h_accepted,
      pass_history>>

\* OfflineStorage.__init__ over a file that does not exist yet; the sync
\* settings are the defaults of AttendanceService.__init__ and are not read
StoreInit ==
    /\ Started
    /\ max_records \in 1..MaxCapacity
    /\ batch_size = 50
    /\ immediate_sync = FALSE
    /\ min_records_for_sync = 1
    /\ cleanup_after_sync = TRUE
    /\ h_adds = [only_adds |-> TRUE, records |-> <<>>]

StoreAdd ==
    \E input \in StoreInputs :
        LET records == read_records(file_state, storage_file) IN
        /\ file_state' = "ok"
        /\ storage_file' = add_record(records, input, max_records)
        /\ call' = [op |-> "add_record", arg |-> input, returned |-> None,
                    dropped |-> Dropped(records, input, max_records),
                    before |-> storage_file, state |-> file_state]
        /\ h_adds' = IF h_adds.only_adds /\ Len(h_adds.records) < max_records
                     THEN [h_adds EXCEPT !.records = Append(@, input)]
                     ELSE [only_adds |-> FALSE, records |-> <<>>]
        /\ UNCHANGED <<config, env_vars, service_idle>>

StoreGetUnsynced ==
    LET records == read_records(file_state, storage_file) IN
    /\ call' = [op |-> "get_unsynced_records", arg |-> None,
                returned |-> get_unsynced_records(records),
                dropped |-> <<>>, before |-> storage_file, state |-> file_state]
    /\ UNCHANGED <<storage_file, file_state, config, env_vars, h_adds,
                   service_idle>>

StoreMark ==
    \E ids \in StoreIdLists :
        LET records == read_records(file_state, storage_file) IN
        /\ file_state' = "ok"
        /\ storage_file' = mark_as_synced(records, ids)
        /\ call' = [op |-> "mark_as_synced", arg |-> ids, returned |-> None,
                    dropped |-> <<>>, before |-> storage_file, state |-> file_state]
        /\ h_adds' = [only_adds |-> FALSE, records |-> <<>>]
        /\ UNCHANGED <<config, env_vars, service_idle>>

StoreClear ==
    LET records == read_records(file_state, storage_file) IN
    /\ file_state' = "ok"
    /\ storage_file' = clear_synced_records(records)
    /\ call' = [op |-> "clear_synced_records", arg |-> None,
                returned |-> clear_synced_removed(records),
                dropped |-> <<>>, before |-> storage_file, state |-> file_state]
    /\ h_adds' = [only_adds |-> FALSE, records |-> <<>>]
    /\ UNCHANGED <<config, env_vars, service_idle>>

\* get_all_records, lines 106-108
get_all_records(records) == records

\* statistics that count the unsynced records as the total
get_stats_of_unsynced(records, max) ==
    [total_records |-> Len(get_unsynced_records(records)),
     synced_records |-> Len(clear_synced_dropped(records)),
     unsynced_records |-> Len(get_unsynced_records(records)),
     max_capacity |-> max]

\* get_stats, lines 110-122
get_stats(records, max) ==
    [total_records |-> Len(records),
     synced_records |-> Len(clear_synced_dropped(records)),
     unsynced_records |-> Len(records) - Len(clear_synced_dropped(records)),
     max_capacity |-> max]

StoreGetAll ==
    LET records == read_records(file_state, storage_file) IN
    /\ call' = [op |-> "get_all_records", arg |-> None,
                returned |-> get_all_records(records),
                dropped |-> <<>>, before |-> storage_file,
                state |-> file_state]
    /\ UNCHANGED <<storage_file, file_state, config, env_vars, h_adds,
                   service_idle>>

StoreGetStats ==
    LET records == read_records(file_state, storage_file) IN
    /\ call' = [op |-> "get_stats", arg |-> None,
                returned |-> get_stats(records, max_records),
                dropped |-> <<>>, before |-> storage_file,
                state |-> file_state]
    /\ UNCHANGED <<storage_file, file_state, config, env_vars, h_adds,
                   service_idle>>

\* the medium damages the file (its bytes no longer parse) or loses it
Damage ==
    /\ file_state = "ok"
    /\ file_state' \in {"corrupt", "missing"}
    /\ UNCHANGED <<storage_file, config, env_vars, call, h_adds,
                   service_idle>>

StoreNext == StoreAdd \/ StoreGetUnsynced \/ StoreMark \/ StoreClear

StoreSpec == StoreInit /\ [][StoreNext]_vars

\* the store used on its own on a medium that may damage the file
DamageNext == StoreNext \/ StoreGetAll \/ StoreGetStats \/ Damage

\* OfflineStorage.__init__ over a file that does not exist yet
DamageInit ==
    /\ Started
    /\ max_records \in ServiceCapacities
    /\ batch_size = 50
    /\ immediate_sync = FALSE
    /\ min_records_for_sync = 1
    /\ cleanup_after_sync = TRUE
    /\ h_adds = [only_adds |-> TRUE, records |-> <<>>]

DamageSpec == DamageInit /\ [][DamageNext]_vars

(***************************************************************************)
(* The periodic sync thread alone, on a store file left by an earlier run  *)
(* of the service: no card is scanned while the passes run.  The records   *)
(* of the file are numbered in stored order; a record carries a timestamp  *)
(* of its own or the timestamp of the record stored before it.             *)
(***************************************************************************)
PassStamps(n) ==
    {ts \in [1..n -> 1..n] :
        \A i \in 1..n : ts[i] = i \/ (i > 1 /\ ts[i] = ts[i - 1])}

PassStores ==
    UNION {{[i \in 1..n |-> [card_id |-> i, timestamp |-> ts[i],
                             synced |-> flags[i]]] :
                ts \in PassStamps(n), flags \in [1..n -> BOOLEAN]} :
           n \in PassLengths}

\* OfflineStorage.__init__ over an existing file, AttendanceService.__init__
PassInit ==
    /\ Idle
    /\ storage_file \in PassStores
    /\ file_state = "ok"
    /\ max_records \in PassCapacities
    /\ batch_size \in 1..max_records
    /\ immediate_sync = FALSE
    /\ min_records_for_sync \in ServiceThresholds
    /\ cleanup_after_sync \in BOOLEAN
    /\ h_adds = [only_adds |-> FALSE, records |-> <<>>]

PassNext == SyncThread

PassSpec == PassInit /\ [][PassNext]_vars

\* one add_record on a file an earlier run left, at every capacity the
\* configuration may give, 0 included
TrimCapacities == {0, 1, 2, 3}

TrimInit ==
    /\ Idle
    /\ storage_file \in PassStores
    /\ file_state = "ok"
    /\ max_records \in TrimCapacities
    /\ batch_size = 50
    /\ immediate_sync = FALSE
    /\ min_records_for_sync = 1
    /\ cleanup_after_sync = TRUE
    /\ h_adds = [only_adds |-> FALSE, records |-> <<>>]

TrimAdd == call.op = "none" /\ StoreAdd

TrimNext == TrimAdd

TrimSpec == TrimInit /\ [][TrimNext]_vars

(***************************************************************************)
(* Properties of the threaded service (Spec).                              *)
(***************************************************************************)
Held(c) == c \in CardIds(storage_file)

\* the records of a collection that mark_as_synced(ids) turns to synced
Turned(records, ids) ==
    {records[i] : i \in {j \in 1..Len(records) :
        /\ NotSynced(records[j])
        /\ ~ NotSynced(mark_as_synced(records, ids)[j])}}

\* C1: a record whose add_record has returned stays in the store until a
\* capacity eviction or a clear_synced_records of it as synced removes it
C1_NoScanLost ==
    \A c \in h_returned : Held(c) \/ c \in h_evicted \/ c \in h_cleared

\* C2: a record the store holds as synced is not held as unsynced after
\* any step of any thread
C2_SyncedNeverReverses ==
    [][\A i \in 1..Len(storage_file) : \A j \in 1..Len(storage_file') :
          (/\ storage_file[i].card_id = storage_file'[j].card_id
           /\ ~ NotSynced(storage_file[i]))
          => ~ NotSynced(storage_file'[j])]_vars

\* C37: no delivery request, single or batch, holds a record that the store
\* file has held with synced = true before the request is made
C37_ConfirmedNotResent ==
    [][/\ SyncChunk =>
            CardIds(Chunk(unsynced, chunk_i, batch_size)) \cap h_marked = {}
       /\ ScanSend => record.card_id \notin h_marked]_vars

\* C3: in every reachable state of the threaded service the store file
\* holds at most max_records records
C3_CapacityBound == Len(storage_file) <= max_records

\* the store is full after an eviction while the periodic thread is
\* between the read and the write of its mark_as_synced
C3_Witness ==
    /\ h_evicted # {}
    /\ Len(storage_file) = max_records
    /\ sync_pc = "mark_write"

C5_AtLeastOnce ==
    \A c \in 1..MaxScans :
        (c \in h_returned)
            ~> (c \in h_evicted \/ (c \in Range(h_accepted) /\ c \in h_marked))

Ascends(ids) ==
    \A i \in 1..Len(ids) : \A j \in 1..Len(ids) : i < j => ids[i] < ids[j]

\* C6: the backend never accepts a record before a record that was stored
\* before it (card ids number the scans in the order they are stored)
C6_AcceptedInStorageOrder == Ascends(h_accepted)

\* C6 as amended: within one sync_records_in_chunks run the records are
\* sent, and so accepted, in the order they were stored
C6_RunInStorageOrder ==
    /\ Ascends(CardSeq(Concat(h_run)))
    /\ Ascends(h_run_accepted)

\* one run has had two records accepted, in one batch or in two
C6_Witness == Len(h_run_accepted) >= 2

C8_OfflineCycleNoOp ==
    [][/\ (sync_pc = "check" /\ h_probe' = "offline")
          => /\ sync_pc' = "heartbeat"
             /\ storage_file' = storage_file
             /\ get_unsynced_records(storage_file')
                   = get_unsynced_records(storage_file)
             /\ h_run' = <<>>
             /\ h_accepted' = h_accepted
       /\ (sync_pc = "heartbeat" /\ h_probe = "offline"
              /\ sync_pc' # "heartbeat")
          => /\ sync_pc' = "sleep"
             /\ storage_file' = storage_file
             /\ h_run' = <<>>
             /\ h_accepted' = h_accepted]_vars

\* a pass found the backend offline while the store held unsynced records
C8_Witness ==
    /\ h_probe = "offline"
    /\ get_unsynced_records(storage_file) # <<>>
    /\ Len(get_unsynced_records(storage_file)) >= min_records_for_sync

\* the positions of the records of a collection that are held as unsynced
UnsyncedAt(records) == {i \in 1..Len(records) : records[i].synced = FALSE}

\* sub is the records of records held as unsynced, in their stored order
InOrderUnsynced(sub, records) ==
    \E f \in [1..Len(sub) -> 1..Len(records)] :
        /\ \A i \in 1..Len(sub) : \A j \in 1..Len(sub) : i < j => f[i] < f[j]
        /\ \A i \in 1..Len(sub) : sub[i] = records[f[i]]
        /\ {f[i] : i \in 1..Len(sub)} = UnsyncedAt(records)

\* the store holds the record of card c as unsynced
HeldUnsynced(c) ==
    \E i \in 1..Len(storage_file) :
        storage_file[i].card_id = c /\ NotSynced(storage_file[i])

\* C19: handle_attendance goes on to send_attendance only from a probe
\* that succeeded and to mark_as_synced only from a send_attendance that
\* succeeded; when the probe or the send fails, the handler returns and the
\* record is in the store with synced = false, for the periodic path to
\* pick up (unless the periodic path has had it accepted already)
C19_ImmediateModeDefers ==
    [][/\ (scan_pc' = "send" /\ scan_pc # "send") => scan_pc = "check"
       /\ (scan_pc' = "mark_read" /\ scan_pc # "mark_read")
             => /\ scan_pc = "send"
                /\ record.card_id \in Range(h_accepted')
       /\ (scan_pc \in {"check", "send"} /\ scan_pc' = "wait")
             => /\ storage_file' = storage_file
                /\ \/ HeldUnsynced(record.card_id)
                   \/ record.card_id \in Range(h_accepted)]_vars

(***************************************************************************)
(* Properties of the periodic pass on an existing store file (PassSpec).   *)
(***************************************************************************)
\* the chunked run of the current pass has sent its last chunk
RunDone ==
    /\ h_run # <<>>
    /\ sync_pc \in {"mark_read", "mark_write", "clear_read", "clear_write",
                     "heartbeat"}

\* ceil(n / k) for n >= 1 and k >= 1
Ceil(n, k) == CHOOSE m \in 1..n : (m - 1) * k < n /\ n <= m * k

RECURSIVE SumOf(_)
SumOf(ns) == IF ns = <<>> THEN 0 ELSE Head(ns) + SumOf(Tail(ns))

TimestampsOf(records) == [i \in 1..Len(records) |-> records[i].timestamp]

\* C15: a run over N records with chunk size k sends chunks of 1..k records
\* that are, one after the other, the input list; when it ends it has sent
\* ceil(N/k) chunks
C15_Chunking ==
    /\ \A i \in 1..Len(h_run) : Len(h_run[i]) \in 1..batch_size
    /\ Concat(h_run) = SubSeq(unsynced, 1, Len(Concat(h_run)))
    /\ RunDone => /\ Concat(h_run) = unsynced
                  /\ Len(h_run) = Ceil(Len(unsynced), batch_size)

\* a run over 3 records sent them as a chunk of 2 and a chunk of 1
C15_Witness ==
    /\ RunDone
    /\ Len(unsynced) = 3
    /\ batch_size = 2
    /\ Len(h_run) = 2
    /\ Len(h_run[2]) = 1

\* C16: while records of the list remain, the run sends the next chunk
\* whatever the earlier chunks were answered; the totals are the sums and
\* the in-order concatenations of the results of the chunks sent
C16_FailedChunkDoesNotAbort ==
    /\ (h_run # <<>> /\ Len(Concat(h_run)) < Len(unsynced))
          => sync_pc = "chunk"
    /\ Len(h_batches) = Len(h_run)
    /\ result.success
          = SumOf([i \in 1..Len(h_batches) |-> h_batches[i].result.success])
    /\ result.failed
          = SumOf([i \in 1..Len(h_batches) |-> h_batches[i].result.failed])
    /\ result.synced_ids
          = Concat([i \in 1..Len(h_batches) |->
                       h_batches[i].result.synced_ids])
    /\ result.errors
          = Concat([i \in 1..Len(h_batches) |-> h_batches[i].result.errors])

\* the first chunk of a run failed and a later chunk was sent and accepted
C16_Witness ==
    /\ RunDone
    /\ Len(h_batches) >= 2
    /\ h_batches[1].answer = "failed"
    /\ h_batches[1].result.failed = Len(h_run[1])
    /\ h_batches[Len(h_batches)].result.synced_ids # <<>>
    /\ result.success > 0
    /\ result.failed > 0

\* C17: a batch answered 200/201 without per-record results is returned as
\* all succeeded (every timestamp sent, in order); a batch answered with
\* another status or a transport error is returned as all failed
C17_FallbackOnlyOnSuccessStatus ==
    \A i \in 1..Len(h_batches) :
        /\ h_batches[i].answer = "plain" =>
              h_batches[i].result
                 = [success |-> Len(h_run[i]), failed |-> 0,
                    synced_ids |-> TimestampsOf(h_run[i]), errors |-> <<>>]
        /\ h_batches[i].answer = "failed" =>
              h_batches[i].result
                 = [success |-> 0, failed |-> Len(h_run[i]),
                    synced_ids |-> <<>>, errors |-> <<>>]

\* one run had a batch of two records answered without per-record results
\* and another batch answered with a failure
C17_Witness ==
    \E i \in 1..Len(h_batches) : \E j \in 1..Len(h_batches) :
        /\ h_batches[i].answer = "plain"
        /\ Len(h_run[i]) = 2
        /\ h_batches[j].answer = "failed"

DistinctStamps(records) ==
    \A i \in 1..Len(records) : \A j \in 1..Len(records) :
        i # j => records[i].timestamp # records[j].timestamp

\* capacity 3, batch size 2, the store held unsynced records A, B, C when
\* the pass read it; chunk [A, B] was accepted and chunk [C] failed
PartialSyncScenario ==
    /\ max_records = 3
    /\ batch_size = 2
    /\ cleanup_after_sync
    /\ Len(h_start) = 3
    /\ unsynced = h_start
    /\ DistinctStamps(h_start)
    /\ Len(h_batches) = 2
    /\ h_batches[1].answer # "failed"
    /\ Range(h_run[1]) \subseteq h_confirmed \cup h_fallback
    /\ h_batches[2].answer = "failed"

\* what the scenario is to give: the result of the run, the store after
\* mark_as_synced, the count clear_synced_records returns and the store
\* after it
PartialSyncExpected ==
    PartialSyncScenario =>
        /\ result = [success |-> 2, failed |-> 1,
                     synced_ids |-> <<h_start[1].timestamp,
                                      h_start[2].timestamp>>,
                     errors |-> <<>>]
        /\ sync_pc = "clear_read" =>
              storage_file = <<Put(h_start[1], "synced", TRUE),
                               Put(h_start[2], "synced", TRUE), h_start[3]>>
        /\ sync_pc = "clear_write" => clear_synced_removed(sync_records) = 2
        /\ sync_pc = "heartbeat" => storage_file = <<h_start[3]>>

\* a pass with cleanup enabled has ended after a chunked run
CleanedPassEnd ==
    /\ sync_pc = "heartbeat"
    /\ h_run # <<>>
    /\ cleanup_after_sync

C20_RejectedIsRetried ==
    /\ \A i \in 1..Len(h_batches) :
          h_batches[i].answer = "failed" =>
              \A j \in 1..Len(h_run[i]) : HeldUnsynced(h_run[i][j].card_id)
    /\ (sync_pc = "chunk" /\ h_run = <<>>) =>
          /\ InOrderUnsynced(unsynced, h_start)
          /\ storage_file = h_start

\* C36: in the result of every batch of the run, success is the number of
\* synced ids and success + failed the number of records sent, and so in
\* the totals of the run
C36_CountsConsistent ==
    /\ \A i \in 1..Len(h_batches) :
          /\ h_batches[i].result.success
                = Len(h_batches[i].result.synced_ids)
          /\ h_batches[i].result.success + h_batches[i].result.failed
                = Len(h_run[i])
    /\ h_run # <<>> =>
          /\ result.success = Len(result.synced_ids)
          /\ result.success + result.failed = Len(Concat(h_run))

\* the records whose timestamps the pass collected in synced_ids: those
\* the backend reported accepted and those of a batch it accepted whole
MeantByIds == h_confirmed \cup h_fallback

\* C39: the collection the pass's mark_as_synced writes has the records
\* it read, in their order, with their card ids and timestamps, and holds
\* as synced the records that were synced already and the records meant
\* by the ids, no other
C39_MarkFrameExact ==
    sync_pc = "mark_write" =>
        LET written == mark_as_synced(sync_records, result.synced_ids)
        IN  /\ Len(written) = Len(sync_records)
            /\ \A i \in 1..Len(written) :
                  /\ written[i].card_id = sync_records[i].card_id
                  /\ written[i].timestamp = sync_records[i].timestamp
                  /\ written[i].synced
                        = (sync_records[i].synced
                             \/ sync_records[i] \in MeantByIds)

Fetched == h_probe = "online" /\ sync_pc \notin {"sleep", "check", "get"}

\* C21: an online pass that finds fewer unsynced records than
\* min_records_for_sync sends no batch and leaves the store as it read it;
\* one that finds at least min_records_for_sync (and one or more) runs the
\* chunked sync over all of them, in chunks of batch_size
C21_ThresholdGate ==
    Fetched =>
        IF Cardinality(UnsyncedAt(h_start)) < min_records_for_sync
           \/ UnsyncedAt(h_start) = {}
        THEN /\ sync_pc = "heartbeat"
             /\ h_run = <<>>
             /\ storage_file = h_start
        ELSE /\ InOrderUnsynced(unsynced, h_start)
             /\ sync_pc = "chunk" \/ RunDone
             /\ h_run # <<>> =>
                   h_run[1] = SubSeq(unsynced, 1,
                                     IF batch_size < Len(unsynced)
                                     THEN batch_size ELSE Len(unsynced))

\* an online pass found one unsynced record under a threshold of two
C21_Witness ==
    /\ Fetched
    /\ min_records_for_sync = 2
    /\ Cardinality(UnsyncedAt(h_start)) = 1
    /\ sync_pc = "heartbeat"

\* the records of the store the pass read that its mark_as_synced turns
MarkedThisCycle == Turned(h_start, result.synced_ids)

\* C22: a pass is in clear_synced_records only with cleanup_after_sync
\* enabled and after its mark_as_synced has turned a record to synced, and
\* a pass with cleanup enabled that has turned a record ends with the
\* synced records cleared
C22_CleanupCondition ==
    /\ sync_pc \in {"clear_read", "clear_write"} =>
          /\ cleanup_after_sync
          /\ result.synced_ids # <<>>
          /\ MarkedThisCycle # {}
    /\ (sync_pc = "heartbeat" /\ h_run # <<>> /\ MarkedThisCycle # {}
           /\ cleanup_after_sync)
          => storage_file = SelectSeq(h_start,
                 LAMBDA r : r \notin MarkedThisCycle /\ NotSynced(r))

(***************************************************************************)
(* The scan thread on a medium whose writes may fail (WriteFailSpec).      *)
(***************************************************************************)
\* _write_records, lines 61-67: what a write that raises leaves of the
\* file: the file as it was when open() raises, an emptied file when the
\* failure follows the truncating open
FailedWrite(state) == {state, "corrupt"}

\* add_record, lines 84-85, on a write that raises: _write_records logs
\* the error and returns, add_record returns, and handle_attendance goes
\* on from line 93
ScanAddWriteFails ==
    /\ scan_pc = "add_write"
    /\ ~ sync_holds_lock(sync_pc)
    /\ file_state' \in FailedWrite(file_state)
    /\ h_returned' = h_returned \cup {record.card_id}
    /\ scan_pc' = AfterAdd(immediate_sync)
    /\ scan_records' = <<>>
    /\ UNCHANGED <<storage_file, config, env_vars, record, n_scans, clock,
                   sync_vars, call, h_adds, h_evicted, h_cleared, h_stored,
                   h_marked, h_accepted, pass_history>>

WriteFailNext == ScanThread \/ ScanAddWriteFails

WriteFailSpec == ServiceInit /\ [][WriteFailNext]_vars

\* C23: add_record returns normally to handle_attendance only for a record
\* that a write has put in the file, and handle_attendance goes on to its
\* probe and its immediate send only for such a record
C23_PersistenceFailureReported ==
    /\ h_returned \subseteq h_stored
    /\ scan_pc \in {"check", "send"} => record.card_id \in h_stored

(***************************************************************************)
(* Properties of the store used on its own (StoreSpec).                    *)
(***************************************************************************)
\* the fields of a stored record that an input of add_record determines
StoredAs(r, input) ==
    /\ r.card_id = input.card_id
    /\ r.timestamp = input.timestamp
    /\ r.synced = IF "synced" \in DOMAIN input THEN input.synced ELSE FALSE

\* C9: add_record(d) on a store that holds max_records records r1..rn
\* leaves r2..rn followed by d
C9_EvictsOldest ==
    [][(call'.op = "add_record" /\ max_records >= 1
           /\ Len(storage_file) = max_records)
          => /\ Len(storage_file') = max_records
             /\ \A i \in 1..(max_records - 1) :
                   storage_file'[i] = storage_file[i + 1]
             /\ StoredAs(storage_file'[max_records], call'.arg)]_vars

\* an add_record has dropped a synced record from a full store of two or
\* more records
C9_Witness ==
    /\ call.op = "add_record"
    /\ max_records >= 2
    /\ Len(call.dropped) = 1
    /\ ~ NotSynced(call.dropped[1])

\* C10: after n <= max_records calls of add_record on an empty store the
\* store holds the n records in the order of the calls, a record passed
\* without 'synced' being stored with synced = false
C10_FifoBelowCapacity ==
    h_adds.only_adds =>
        /\ Len(storage_file) = Len(h_adds.records)
        /\ \A i \in 1..Len(storage_file) :
              StoredAs(storage_file[i], h_adds.records[i])

\* max_records >= 2 different records were added, the first without 'synced'
C10_Witness ==
    /\ h_adds.only_adds
    /\ max_records >= 2
    /\ Len(h_adds.records) = max_records
    /\ "synced" \notin DOMAIN h_adds.records[1]
    /\ h_adds.records[1].card_id # h_adds.records[2].card_id

\* C11: after mark_as_synced(ids), a second mark_as_synced(ids) writes the
\* collection the store already holds
C11_MarkIdempotent ==
    call.op = "mark_as_synced" =>
        /\ storage_file = mark_as_synced(call.before, call.arg)
        /\ mark_as_synced(storage_file, call.arg) = storage_file

\* a mark_as_synced has turned a record to synced and left another unsynced
C11_Witness ==
    /\ call.op = "mark_as_synced"
    /\ storage_file # call.before
    /\ UnsyncedAt(storage_file) # {}

\* C12: mark_as_synced(ids) on a store none of whose records has a
\* timestamp in ids leaves the store as it was
C12_UnmatchedIdsIgnored ==
    (/\ call.op = "mark_as_synced"
     /\ \A i \in 1..Len(call.before) :
           call.before[i].timestamp \notin Range(call.arg))
        => storage_file = call.before

\* mark_as_synced was given ids, none of them the timestamp of a stored
\* record, on a store that held an unsynced record
C12_Witness ==
    /\ call.op = "mark_as_synced"
    /\ call.arg # <<>>
    /\ UnsyncedAt(call.before) # {}
    /\ \A i \in 1..Len(call.before) :
          call.before[i].timestamp \notin Range(call.arg)

\* C13: clear_synced_records leaves the records held as unsynced, in their
\* stored order, and returns the number of records held as synced; with no
\* record held as synced it leaves the store as it was and returns 0
C13_ClearRemovesExactlySynced ==
    call.op = "clear_synced_records" =>
        /\ InOrderUnsynced(storage_file, call.before)
        /\ call.returned = Len(call.before) - Cardinality(UnsyncedAt(call.before))
        /\ UnsyncedAt(call.before) = 1..Len(call.before)
              => (storage_file = call.before /\ call.returned = 0)

\* clear_synced_records ran on a store that held a synced record followed
\* by an unsynced one
C13_Witness ==
    /\ call.op = "clear_synced_records"
    /\ Len(call.before) >= 2
    /\ call.before[1].synced
    /\ ~ call.before[2].synced
    /\ call.returned = 1

\* C14: get_unsynced_records returns the records held as unsynced, in their
\* stored order, and leaves the store as it was
C14_GetUnsyncedReadOnly ==
    call.op = "get_unsynced_records" =>
        /\ InOrderUnsynced(call.returned, call.before)
        /\ storage_file = call.before

\* get_unsynced_records ran on a store that held a synced record followed
\* by an unsynced one
C14_Witness ==
    /\ call.op = "get_unsynced_records"
    /\ Len(call.before) >= 2
    /\ call.before[1].synced
    /\ ~ call.before[2].synced
    /\ Len(call.returned) = 1

(***************************************************************************)
(* The periodic pass with the service's last_sync followed (StampSpec).    *)
(* Line 157 runs in the step that ends the marking: the last chunk's step  *)
(* when the run returned no synced id, the write of mark_as_synced         *)
(* otherwise.                                                              *)
(***************************************************************************)
\* sync_offline_records, line 157: self.last_sync = datetime.now(), whatever
\* the run returned
stamp_last_sync(res, last, now) == now

\* sync_records_in_chunks, lines 223-239, and sync_offline_records line 157
\* when mark_as_synced is skipped
StampChunk ==
    /\ sync_pc = "chunk"
    /\ LET chunk == Chunk(unsynced, chunk_i, batch_size)
       IN  \E response \in BatchResponses(Len(chunk)) :
            LET sent == send_batch_attendance(chunk, response)
                total == Aggregate(result, sent)
                accepted == AcceptedBy(chunk, response)
                more == chunk_i + batch_size < Len(unsynced)
                next == IF more THEN "chunk"
                        ELSE AfterChunks(total, cleanup_after_sync)
            IN  /\ result' = total
                /\ chunk_i' = chunk_i + batch_size
                /\ sync_pc' = next
                /\ orch_last_sync' =
                      IF next \in {"chunk", "mark_read"} THEN orch_last_sync
                      ELSE stamp_last_sync(total, orch_last_sync, n_cycles)
                /\ h_accepted' = AppendNew(h_accepted, CardSeq(accepted))
                /\ h_run' = Append(h_run, chunk)
                /\ h_batches' = Append(h_batches,
                                        [answer |-> Answered(response),
                                         result |-> sent])
                /\ h_run_accepted' = h_run_accepted \o CardSeq(accepted)
                /\ h_confirmed' = h_confirmed \cup
                      (IF response.status = "ok" /\ response.has_results
                       THEN Range(accepted) ELSE {})
                /\ h_fallback' = h_fallback \cup
                      (IF response.status = "ok" /\ ~ response.has_results
                       THEN Range(chunk) ELSE {})
    /\ UNCHANGED <<storage_file, file_state, config, client_vars, dash_vars, shut_vars,
                   running, stop_pc, reader, loop_errors, slept, h_final,
                   beat, scan_vars, unsynced, sync_records, n_cycles, call, h_adds,
                   store_history, h_stored, h_marked, h_probe, h_start>>

\* mark_as_synced, lines 99-104, and sync_offline_records lines 157-160
StampMarkWrite ==
    /\ sync_pc = "mark_write"
    /\ Write(mark_as_synced(sync_records, result.synced_ids))
    /\ orch_last_sync' = stamp_last_sync(result, orch_last_sync, n_cycles)
    /\ sync_pc' = AfterMark(result, cleanup_after_sync)
    /\ sync_records' = <<>>
    /\ UNCHANGED <<config, client_vars, dash_vars, shut_vars, running, stop_pc, reader,
                   loop_errors, slept, h_final, beat, scan_vars, unsynced,
                   chunk_i,
                   result, n_cycles, call, h_adds, store_history, h_accepted,
                   pass_history>>

StampNext ==
    \/ Wake
    \/ SyncProbe
    \/ SyncGet
    \/ StampChunk
    \/ SyncMarkRead
    \/ StampMarkWrite
    \/ SyncClearRead
    \/ SyncClearWrite
    \/ Heartbeat

StampSpec == PassInit /\ [][StampNext]_vars

\* C35: a pass changes the service's last_sync only when the backend has
\* accepted a record in that pass; a pass whose every chunk failed leaves
\* it as it was
C35_LastSyncOnlyOnSuccess ==
    [][orch_last_sync' # orch_last_sync => h_run_accepted' # <<>>]_vars

(***************************************************************************)
(* The two threads with the write of the file in its two steps (TornSpec): *)
(* open(storage_file, 'w') empties the file, and the list reaches the file *)
(* when json.dump's output is flushed, at the latest when the file is      *)
(* closed.                                                                 *)
(***************************************************************************)
\* _write_records, line 62: the open that truncates the file, before the
\* exclusive lock is asked for at line 63
TruncatingOpen ==
    /\ \/ scan_pc \in {"add_write", "mark_write"}
       \/ sync_pc \in {"mark_write", "clear_write"}
    /\ file_state = "ok"
    /\ file_state' = "corrupt"
    /\ storage_file' = <<>>
    /\ UNCHANGED <<config, env_vars, scan_vars, sync_vars, call, h_adds,
                   store_history, h_stored, h_marked, h_accepted,
                   pass_history>>

\* a service in batch mode
BatchModeInit ==
    /\ Started
    /\ max_records \in PassCapacities
    /\ batch_size \in ServiceCapacities
    /\ immediate_sync = FALSE
    /\ min_records_for_sync = 1
    /\ cleanup_after_sync \in BOOLEAN
    /\ h_adds = [only_adds |-> FALSE, records |-> <<>>]

\* handle_attendance in batch mode: the add and nothing after it
BatchModeScan == Scan \/ ScanAddRead \/ ScanAddWrite

TornNext == BatchModeScan \/ SyncThread \/ TruncatingOpen

TornSpec == BatchModeInit /\ [][TornNext]_vars

\* a step in which _read_records reads the file
ReadStep ==
    ScanAddRead \/ ScanMarkRead \/ SyncGet \/ SyncMarkRead \/ SyncClearRead

\* C26: every read of the file finds it well-formed and whole, as a
\* completed write left it
C26_ReadsSeeCompleteFile == [][ReadStep => file_state = "ok"]_vars

(***************************************************************************)
(* The dashboard process (web/app.py) beside the card-scan thread of the   *)
(* service (DashSpec).  The dashboard has its own OfflineStorage and       *)
(* APISync objects (lines 27-28) over the same file and configuration.     *)
(***************************************************************************)
service_vars ==
    <<scan_vars, sync_vars, call, h_adds, store_history, pass_history>>

\* trigger_sync, lines 251-255: the probe; offline is answered 503
DashProbe ==
    /\ dash_pc = "idle"
    /\ \E online \in BOOLEAN : dash_pc' = IF online THEN "get" ELSE "idle"
    /\ UNCHANGED <<storage_file, file_state, config, client_vars, life_vars, shut_vars,
                   dash_unsynced, dash_i, dash_result, dash_records,
                   service_vars, h_stored, h_marked, h_accepted>>

\* trigger_sync, lines 257-263
DashGet ==
    /\ dash_pc = "get"
    /\ LET list == get_unsynced_records(read_records(file_state,
                                                     storage_file))
       IN  /\ dash_pc' = IF list = <<>> THEN "idle" ELSE "chunk"
           /\ dash_unsynced' = list
    /\ dash_i' = 0
    /\ dash_result' = NoResult
    /\ UNCHANGED <<storage_file, file_state, config, client_vars, life_vars, shut_vars,
                   dash_records, service_vars, h_stored, h_marked,
                   h_accepted>>

\* trigger_sync, line 266: one chunk of sync_records_in_chunks, and
\* lines 268-276 after the last one
DashChunk ==
    /\ dash_pc = "chunk"
    /\ LET chunk == Chunk(dash_unsynced, dash_i, batch_size)
       IN  \E response \in BatchResponses(Len(chunk)) :
            LET total == Aggregate(dash_result,
                                   send_batch_attendance(chunk, response))
                more == dash_i + batch_size < Len(dash_unsynced)
                marks == ~ more /\ total.synced_ids # <<>>
            IN  /\ dash_result' = IF more \/ marks THEN total ELSE NoResult
                /\ dash_i' = IF more THEN dash_i + batch_size ELSE 0
                /\ dash_unsynced' = IF more THEN dash_unsynced ELSE <<>>
                /\ dash_pc' = IF more THEN "chunk"
                              ELSE IF marks THEN "mark_read" ELSE "idle"
                /\ h_accepted' = AppendNew(h_accepted,
                                           CardSeq(AcceptedBy(chunk, response)))
    /\ UNCHANGED <<storage_file, file_state, config, client_vars, life_vars, shut_vars,
                   dash_records, service_vars, h_stored, h_marked>>

\* mark_as_synced, line 96, called from trigger_sync line 269
DashMarkRead ==
    /\ dash_pc = "mark_read"
    /\ dash_records' = read_records(file_state, storage_file)
    /\ dash_pc' = "mark_write"
    /\ UNCHANGED <<storage_file, file_state, config, client_vars, life_vars, shut_vars,
                   dash_unsynced, dash_i, dash_result, service_vars,
                   h_stored, h_marked, h_accepted>>

\* mark_as_synced, lines 99-104, called from trigger_sync line 269
DashMarkWrite ==
    /\ dash_pc = "mark_write"
    /\ Write(mark_as_synced(dash_records, dash_result.synced_ids))
    /\ dash_pc' = "idle"
    /\ dash_result' = NoResult
    /\ dash_records' = <<>>
    /\ UNCHANGED <<config, client_vars, life_vars, shut_vars, dash_unsynced, dash_i, service_vars,
                   h_accepted>>

\* clear_synced_records, line 127, called from clear_synced_storage
\* line 334
DashClearRead ==
    /\ dash_pc = "idle"
    /\ dash_records' = read_records(file_state, storage_file)
    /\ dash_pc' = "clear_write"
    /\ UNCHANGED <<storage_file, file_state, config, client_vars, life_vars, shut_vars,
                   dash_unsynced, dash_i, dash_result, service_vars,
                   h_stored, h_marked, h_accepted>>

\* clear_synced_records, lines 128-132, called from clear_synced_storage
\* line 334
DashClearWrite ==
    /\ dash_pc = "clear_write"
    /\ Write(clear_synced_records(dash_records))
    /\ dash_pc' = "idle"
    /\ dash_records' = <<>>
    /\ UNCHANGED <<config, client_vars, life_vars, shut_vars, dash_unsynced, dash_i, dash_result,
                   service_vars, h_accepted>>

Dashboard ==
    \/ DashProbe
    \/ DashGet
    \/ DashChunk
    \/ DashMarkRead
    \/ DashMarkWrite
    \/ DashClearRead
    \/ DashClearWrite

DashNext == BatchModeScan \/ Dashboard

DashSpec == BatchModeInit /\ [][DashNext]_vars

\* C27: every step that changes the store file is a step of the service's
\* threads, none a step of the dashboard process
C27_SingleWriter ==
    [][storage_file' # storage_file => (ScanThread \/ SyncThread)]_vars

(***************************************************************************)
(* The periodic thread alone, with passes that raise (LoopSpec).  The      *)
(* service keeps running; a sleep that has begun ends (weak fairness).     *)
(***************************************************************************)
\* a loop that waits longer after each error
sleep_time_backoff(errors) == SyncInterval * (errors + 1)

\* periodic_sync, line 178: time.sleep(self.sync_interval)
sleep_time(errors) == SyncInterval

LoopStores == {s \in PassStores : Len(s) \in LoopLengths}

\* the service started over the file an earlier run left
LoopInit ==
    /\ Idle
    /\ storage_file \in LoopStores
    /\ file_state = "ok"
    /\ max_records \in PassCapacities
    /\ batch_size = 1
    /\ immediate_sync = FALSE
    /\ min_records_for_sync = 1
    /\ cleanup_after_sync \in BOOLEAN
    /\ h_adds = [only_adds |-> FALSE, records |-> <<>>]

\* periodic_sync, lines 176-179: the loop test passes, the sleep ends and a
\* pass starts
LoopWake ==
    /\ sync_pc = "sleep"
    /\ running
    /\ slept' = sleep_time(loop_errors)
    /\ sync_pc' = "check"
    /\ UNCHANGED <<storage_file, file_state, config, client_vars, dash_vars, shut_vars,
                   running, stop_pc, reader, loop_errors, h_final, orch_last_sync, beat,
                   scan_vars,
                   unsynced, chunk_i, result, sync_records, n_cycles, call,
                   h_adds, store_history, h_stored, h_marked, h_accepted,
                   pass_history>>

\* periodic_sync, line 176: the test of the while loop, made when an
\* iteration has ended
loop_test(is_running) == IF is_running THEN "looping" ELSE "exited"

\* the places of an iteration of periodic_sync after its sleep
InIteration ==
    {"check", "get", "chunk", "mark_read", "mark_write", "clear_read",
     "clear_write", "heartbeat"}

\* periodic_sync, lines 186-187: an exception raised in the pass or in the
\* heartbeat is caught and logged; the iteration ends and its locals are
\* gone
LoopRaise ==
    /\ sync_pc \in InIteration
    /\ loop_errors < MaxErrors
    /\ loop_errors' = loop_errors + 1
    /\ sync_pc' = "sleep"
    /\ sync_thread' = loop_test(running)
    /\ unsynced' = <<>>
    /\ chunk_i' = 0
    /\ result' = NoResult
    /\ sync_records' = <<>>
    /\ h_probe' = "none"
    /\ h_run' = <<>>
    /\ h_run_accepted' = <<>>
    /\ h_confirmed' = {}
    /\ h_fallback' = {}
    /\ h_batches' = <<>>
    /\ h_start' = <<>>
    /\ UNCHANGED <<storage_file, file_state, config, client_vars, dash_vars, final,
                   running, stop_pc, reader, slept, h_final, orch_last_sync, beat,
                   scan_vars,
                   n_cycles, call, h_adds, store_history, h_stored, h_marked,
                   h_accepted>>

\* sync_offline_records, lines 125-163
PassSteps ==
    \/ SyncProbe
    \/ SyncGet
    \/ SyncChunk
    \/ SyncMarkRead
    \/ SyncMarkWrite
    \/ SyncClearRead
    \/ SyncClearWrite

LoopNext == LoopWake \/ PassSteps \/ Heartbeat \/ LoopRaise

LoopSpec == LoopInit /\ [][LoopNext]_vars /\ WF_vars(LoopWake)

\* C29: after periodic_sync has caught an error, whatever the number of
\* errors before it, the loop is asleep again and in the end starts
\* another iteration, having slept sync_interval
C29_LoopSurvivesErrors ==
    \A n \in 1..MaxErrors :
        (loop_errors = n /\ sync_pc = "sleep")
            ~> (loop_errors = n /\ sync_pc = "check"
                  /\ slept = sleep_time(0))

\* a pass is sending a batch after two passes raised
C29_Witness ==
    /\ loop_errors = 2
    /\ sync_pc = "chunk"
    /\ slept = SyncInterval

(***************************************************************************)
(* Shutdown (StopSpec): the main thread in stop(), called from             *)
(* _signal_handler.  The pass variables are those of the pass stop()       *)
(* makes; the main thread goes on until stop() returns (weak fairness).    *)
(***************************************************************************)
\* a stop() that lets the error of its final pass out
after_final_error_propagates == "raised"

\* stop(), lines 265-269: the error is logged and stop() goes on to the
\* cleanup
after_final_error == "cleanup"

\* stop(), lines 259-264, called from _signal_handler line 72
Stop ==
    /\ stop_pc = "serving"
    /\ sync_pc = "sleep"
    /\ running' = FALSE
    /\ stop_pc' = "final_sync"
    /\ h_final' = h_final + 1
    /\ sync_pc' = "check"
    /\ UNCHANGED <<storage_file, file_state, config, client_vars, dash_vars, shut_vars,
                   reader, loop_errors, slept, orch_last_sync, beat,
                   scan_vars, unsynced, chunk_i,
                   result, sync_records, n_cycles, call, h_adds,
                   store_history, h_stored, h_marked, h_accepted,
                   pass_history>>

\* the pass of stop() is over and its locals are gone
FinalPassOver ==
    /\ sync_pc' = "sleep"
    /\ unsynced' = <<>>
    /\ chunk_i' = 0
    /\ result' = NoResult
    /\ sync_records' = <<>>
    /\ UNCHANGED <<storage_file, file_state, config, client_vars, dash_vars, shut_vars,
                   running, reader, slept, h_final, orch_last_sync, beat,
                   scan_vars, n_cycles,
                   call, h_adds, store_history, h_stored, h_marked,
                   h_accepted, pass_history>>

\* stop(), line 264: sync_offline_records returns
StopPassReturns ==
    /\ stop_pc = "final_sync"
    /\ sync_pc = "heartbeat"
    /\ stop_pc' = "cleanup"
    /\ loop_errors' = loop_errors
    /\ FinalPassOver

\* stop(), lines 265-266: sync_offline_records raises
StopPassRaises ==
    /\ stop_pc = "final_sync"
    /\ sync_pc \in InIteration \ {"heartbeat"}
    /\ stop_pc' = after_final_error
    /\ loop_errors' = loop_errors + 1
    /\ FinalPassOver

\* stop(), lines 268-271: rfid_reader.cleanup()
StopCleanup ==
    /\ stop_pc = "cleanup"
    /\ reader' = "released"
    /\ stop_pc' = "stopped"
    /\ UNCHANGED <<storage_file, file_state, config, client_vars, dash_vars, shut_vars,
                   running, loop_errors, slept, h_final, orch_last_sync, beat,
                   scan_vars,
                   sync_vars, call, h_adds, store_history, h_stored,
                   h_marked, h_accepted, pass_history>>

\* the steps of the main thread once it is in stop()
Stopping == PassSteps \/ StopPassReturns \/ StopCleanup

StopNext == Stop \/ Stopping \/ StopPassRaises

StopSpec == LoopInit /\ [][StopNext]_vars /\ WF_vars(Stopping)

\* C30: once stop() is entered running is false and one final pass, no
\* more, has been started; whether that pass returns or raises, stop()
\* goes on to release the reader and returns
C30_ShutdownFinalSync ==
    /\ [](stop_pc # "serving" => (~ running /\ h_final = 1))
    /\ [](reader = "released" => stop_pc = "stopped")
    /\ (stop_pc = "final_sync")
          ~> (stop_pc = "stopped" /\ reader = "released")

\* stop() has returned with the reader released after its final pass
\* raised
C30_Witness ==
    /\ stop_pc = "stopped"
    /\ reader = "released"
    /\ loop_errors = 1
    /\ h_final = 1

(***************************************************************************)
(* The periodic thread with the end of its iteration in detail (BeatSpec): *)
(* the probe of line 183 and the heartbeat of line 184.                    *)
(***************************************************************************)
\* the answers to POST /device-api/heartbeat: 200, another status, a
\* transport error
BeatAnswers == {"ok", "error", "exception"}

\* heartbeat, lines 334-350: the value returned
heartbeat(answer) == answer = "ok"

\* a loop that sends the heartbeat again until it succeeds
after_heartbeat_retries(returned) == IF returned THEN "sleep" ELSE "heartbeat"

\* periodic_sync, lines 183-184 and 176: the value heartbeat() returned is
\* dropped and the iteration ends
after_heartbeat(returned) == "sleep"

\* periodic_sync, lines 182-184: the probe, the heartbeat if the probe
\* succeeded, and the end of the iteration
HeartbeatEnd ==
    /\ sync_pc = "heartbeat"
    /\ \E online \in BOOLEAN : \E answer \in BeatAnswers :
          /\ beat' = IF online
                     THEN [sent |-> TRUE, answer |-> answer,
                           value |-> heartbeat(answer)]
                     ELSE [sent |-> FALSE, answer |-> "none",
                           value |-> FALSE]
          /\ sync_pc' = IF online THEN after_heartbeat(heartbeat(answer))
                        ELSE "sleep"
          /\ is_online' = online
    /\ last_check' = "set"
    /\ sync_thread' = loop_test(running)
    /\ unsynced' = <<>>
    /\ chunk_i' = 0
    /\ result' = NoResult
    /\ h_probe' = "none"
    /\ h_run' = <<>>
    /\ h_run_accepted' = <<>>
    /\ h_confirmed' = {}
    /\ h_fallback' = {}
    /\ h_batches' = <<>>
    /\ h_start' = <<>>
    /\ UNCHANGED <<storage_file, file_state, config, last_sync, probe,
                   dash_vars, final, running, stop_pc, reader, loop_errors, slept,
                   h_final, orch_last_sync, scan_vars, sync_records, n_cycles, call,
                   h_adds, store_history, h_stored, h_marked, h_accepted>>

BeatNext == Wake \/ PassSteps \/ HeartbeatEnd

BeatSpec == LoopInit /\ [][BeatNext]_vars

\* C33: the step that sends the heartbeat ends the iteration whatever the
\* answer: a heartbeat that fails is recorded as returned false, is not
\* sent again, leaves the store file as it was, and leaves the loop asleep
\* and running
C33_HeartbeatBestEffort ==
    [][HeartbeatEnd =>
        /\ sync_pc' = "sleep"
        /\ running'
        /\ UNCHANGED <<storage_file, file_state>>
        /\ beat'.sent => (beat'.value <=> beat'.answer = "ok")]_vars

\* the loop is sending a batch in the iteration after a heartbeat failed
C33_Witness ==
    /\ beat.sent
    /\ ~ beat.value
    /\ sync_pc = "chunk"
    /\ n_cycles = 2

(***************************************************************************)
(* The two threads of an immediate-mode service with check_connection in   *)
(* its steps (ProbeSpec).  Both threads call the one APISync object        *)
(* (attendance_service.py lines 98 and 125): the request writes is_online  *)
(* and last_check, and the value returned is read from is_online again.    *)
(***************************************************************************)
\* the answers to GET /device-api/health: 200, another status, a transport
\* error
ProbeAnswers == {"ok", "error", "unreachable"}

\* check_connection, lines 91 and 101: the value the answer gives is_online
probe_result(answer) == answer = "ok"

\* check_connection, lines 100 and 105: the value returned is the field as
\* it is then; the except branch returns False itself
check_connection(answer, online_now) ==
    IF answer = "unreachable" THEN FALSE ELSE online_now

\* check_connection, lines 86-92 and 101-103, called from handle_attendance
\* line 98
ProbeScanRequest ==
    /\ scan_pc = "check"
    /\ probe.scan = "none"
    /\ \E answer \in ProbeAnswers :
        /\ is_online' = probe_result(answer)
        /\ probe' = [probe EXCEPT !.scan = answer]
    /\ last_check' = "set"
    /\ UNCHANGED <<storage_file, file_state, config, last_sync, dash_vars,
                   life_vars, shut_vars, scan_vars, sync_vars, call, h_adds,
                   store_history, h_stored, h_marked, h_accepted,
                   pass_history>>

\* check_connection, lines 94-100 and 105, and handle_attendance line 98
ProbeScanReturn ==
    /\ scan_pc = "check"
    /\ probe.scan # "none"
    /\ scan_pc' = AfterProbe(check_connection(probe.scan, is_online))
    /\ probe' = [probe EXCEPT !.scan = "none"]
    /\ UNCHANGED <<storage_file, file_state, config, is_online, last_check,
                   last_sync, dash_vars, life_vars, shut_vars, record, scan_records,
                   n_scans, clock, sync_vars, call, h_adds, store_history,
                   h_stored, h_marked, h_accepted, pass_history>>

\* check_connection, lines 86-92 and 101-103, called from
\* sync_offline_records line 125
ProbeSyncRequest ==
    /\ sync_pc = "check"
    /\ probe.sync = "none"
    /\ \E answer \in ProbeAnswers :
        /\ is_online' = probe_result(answer)
        /\ probe' = [probe EXCEPT !.sync = answer]
    /\ last_check' = "set"
    /\ UNCHANGED <<storage_file, file_state, config, last_sync, dash_vars,
                   life_vars, shut_vars, scan_vars, sync_vars, call, h_adds,
                   store_history, h_stored, h_marked, h_accepted,
                   pass_history>>

\* check_connection, lines 94-100 and 105, and sync_offline_records lines
\* 125-127
ProbeSyncReturn ==
    /\ sync_pc = "check"
    /\ probe.sync # "none"
    /\ LET online == check_connection(probe.sync, is_online) IN
        /\ sync_pc' = AfterCheck(online)
        /\ h_probe' = IF online THEN "online" ELSE "offline"
    /\ probe' = [probe EXCEPT !.sync = "none"]
    /\ UNCHANGED <<storage_file, file_state, config, is_online, last_check,
                   last_sync, dash_vars, life_vars, shut_vars, scan_vars, unsynced,
                   chunk_i, result, sync_records, n_cycles, call, h_adds,
                   store_history, h_stored, h_marked, h_accepted, h_run,
                   h_run_accepted, h_confirmed, h_fallback, h_batches,
                   h_start>>

\* a service in immediate mode
ImmediateModeInit ==
    /\ Started
    /\ max_records \in PassCapacities
    /\ batch_size \in ServiceCapacities
    /\ immediate_sync = TRUE
    /\ min_records_for_sync = 1
    /\ cleanup_after_sync \in BOOLEAN
    /\ h_adds = [only_adds |-> FALSE, records |-> <<>>]

ProbeNext ==
    \/ Scan
    \/ ScanAddRead
    \/ ScanAddWrite
    \/ ProbeScanRequest
    \/ ProbeScanReturn
    \/ ScanSend
    \/ ScanMarkRead
    \/ ScanMarkWrite
    \/ Wake
    \/ ProbeSyncRequest
    \/ ProbeSyncReturn
    \/ SyncGet
    \/ SyncChunk
    \/ SyncMarkRead
    \/ SyncMarkWrite
    \/ SyncClearRead
    \/ SyncClearWrite
    \/ HeartbeatEnd

ProbeSpec == ImmediateModeInit /\ [][ProbeNext]_vars

\* C32: a delivery starts only on the return of a probe made in the same
\* operation, and only of a probe that was answered 200; a probe that was
\* not answered 200 returns false; and when a probe returns, is_online is
\* the value it returns and last_check is set
C32_DeliveryGatedByProbe ==
    [][/\ (scan_pc' = "send" /\ scan_pc # "send")
            => (ProbeScanReturn /\ probe.scan = "ok")
       /\ (sync_pc' = "get" /\ sync_pc # "get")
            => (ProbeSyncReturn /\ probe.sync = "ok")
       /\ ProbeScanReturn
            => /\ is_online' = (scan_pc' = "send")
               /\ last_check' = "set"
       /\ ProbeSyncReturn
            => /\ is_online' = (sync_pc' = "get")
               /\ last_check' = "set"]_vars

(***************************************************************************)
(* Shutdown beside the periodic thread (ShutdownSpec).  stop() runs on the *)
(* main thread, from _signal_handler or from start(); the periodic thread  *)
(* is a daemon (line 230) that stop() neither waits for nor locks out, and *)
(* the process ends once stop() has returned (lines 73 and 251).           *)
(***************************************************************************)
\* the places inside sync_offline_records
InPass ==
    {"check", "get", "chunk", "mark_read", "mark_write", "clear_read",
     "clear_write"}

\* periodic_sync, line 178: time.sleep returns and the pass starts; the
\* loop test was made before the sleep
SleepEnds ==
    /\ sync_thread = "looping"
    /\ sync_pc = "sleep"
    /\ sync_pc' = "check"
    /\ UNCHANGED <<storage_file, file_state, config, env_vars, scan_vars,
                   unsynced, chunk_i, result, sync_records, n_cycles, call,
                   h_adds, store_history, h_stored, h_marked, h_accepted,
                   pass_history>>

\* stop(), lines 259-264, called from _signal_handler line 72 or start()
\* line 251, wherever the periodic thread is
StopCalled ==
    /\ stop_pc = "serving"
    /\ running' = FALSE
    /\ stop_pc' = "final_sync"
    /\ h_final' = h_final + 1
    /\ final' = [NoFinalPass EXCEPT !.pc = "check"]
    /\ UNCHANGED <<storage_file, file_state, config, client_vars, dash_vars,
                   reader, loop_errors, slept, orch_last_sync, beat,
                   sync_thread, service_vars, h_stored, h_marked,
                   h_accepted>>

\* what a step of the final pass leaves alone besides the file
final_frame ==
    <<config, client_vars, dash_vars, life_vars, sync_thread, service_vars>>

\* sync_offline_records, lines 125-127, called from stop() line 264
FinalProbe ==
    /\ final.pc = "check"
    /\ \E online \in BOOLEAN :
        final' = [final EXCEPT !.pc = IF online THEN "get" ELSE "done"]
    /\ UNCHANGED <<storage_file, file_state, final_frame, h_stored, h_marked,
                   h_accepted>>

\* sync_offline_records, lines 129-137, called from stop() line 264
FinalGet ==
    /\ final.pc = "get"
    /\ LET list == get_unsynced_records(read_records(file_state,
                                                     storage_file))
           next == AfterGet(list, min_records_for_sync)
       IN  final' = [final EXCEPT
                       !.pc = IF next = "chunk" THEN "chunk" ELSE "done",
                       !.unsynced = IF next = "chunk" THEN list ELSE <<>>]
    /\ UNCHANGED <<storage_file, file_state, final_frame, h_stored, h_marked,
                   h_accepted>>

\* sync_offline_records, lines 142-143 and 160: one chunk of
\* sync_records_in_chunks, called from stop() line 264
FinalChunk ==
    /\ final.pc = "chunk"
    /\ LET chunk == Chunk(final.unsynced, final.i, batch_size)
       IN  \E response \in BatchResponses(Len(chunk)) :
            LET total == Aggregate(final.result,
                                   send_batch_attendance(chunk, response))
                more == final.i + batch_size < Len(final.unsynced)
                next == AfterChunks(total, cleanup_after_sync)
            IN  /\ final' = [final EXCEPT
                               !.result = total,
                               !.i = final.i + batch_size,
                               !.pc = IF more THEN "chunk"
                                      ELSE IF next = "heartbeat" THEN "done"
                                      ELSE next]
                /\ h_accepted' = AppendNew(h_accepted,
                                           CardSeq(AcceptedBy(chunk, response)))
    /\ UNCHANGED <<storage_file, file_state, final_frame, h_stored, h_marked>>

\* mark_as_synced, line 96, called from sync_offline_records line 146
FinalMarkRead ==
    /\ final.pc = "mark_read"
    /\ final' = [final EXCEPT
                   !.records = read_records(file_state, storage_file),
                   !.pc = "mark_write"]
    /\ UNCHANGED <<storage_file, file_state, final_frame, h_stored, h_marked,
                   h_accepted>>

\* mark_as_synced, lines 99-104, and sync_offline_records line 160
FinalMarkWrite ==
    /\ final.pc = "mark_write"
    /\ Write(mark_as_synced(final.records, final.result.synced_ids))
    /\ LET next == AfterMark(final.result, cleanup_after_sync)
       IN  final' = [final EXCEPT
                       !.records = <<>>,
                       !.pc = IF next = "heartbeat" THEN "done" ELSE next]
    /\ UNCHANGED <<final_frame, h_accepted>>

\* clear_synced_records, line 127, called from sync_offline_records
\* line 161
FinalClearRead ==
    /\ final.pc = "clear_read"
    /\ final' = [final EXCEPT
                   !.records = read_records(file_state, storage_file),
                   !.pc = "clear_write"]
    /\ UNCHANGED <<storage_file, file_state, final_frame, h_stored, h_marked,
                   h_accepted>>

\* clear_synced_records, lines 128-132
FinalClearWrite ==
    /\ final.pc = "clear_write"
    /\ Write(clear_synced_records(final.records))
    /\ final' = [final EXCEPT !.records = <<>>, !.pc = "done"]
    /\ UNCHANGED <<final_frame, h_accepted>>

\* stop(), lines 264-266: sync_offline_records returns, or raises and the
\* error is logged
FinalPassEnds ==
    /\ stop_pc = "final_sync"
    /\ final.pc \in InPass \cup {"done"}
    /\ stop_pc' = "cleanup"
    /\ final' = NoFinalPass
    /\ UNCHANGED <<storage_file, file_state, config, client_vars, dash_vars,
                   running, reader, loop_errors, slept, h_final,
                   orch_last_sync, beat, sync_thread, service_vars, h_stored,
                   h_marked, h_accepted>>

\* the periodic thread when the interpreter exits: a daemon thread is not
\* joined and ends wherever it is
at_exit(thread) == IF thread = "looping" THEN "killed" ELSE thread

\* _signal_handler, line 73: sys.exit(0) after stop(); or start() returns
\* at line 251 and the main thread ends
ProcessExit ==
    /\ stop_pc = "stopped"
    /\ stop_pc' = "exited"
    /\ sync_thread' = at_exit(sync_thread)
    /\ UNCHANGED <<storage_file, file_state, config, client_vars, dash_vars,
                   running, reader, loop_errors, slept, h_final,
                   orch_last_sync, beat, final, service_vars, h_stored,
                   h_marked, h_accepted>>

\* the steps of the periodic thread
PeriodicThread ==
    \/ SleepEnds
    \/ sync_thread = "looping" /\ PassSteps
    \/ sync_thread = "looping" /\ HeartbeatEnd

\* the steps of the main thread once it is in stop()
MainThreadStopping ==
    \/ FinalProbe
    \/ FinalGet
    \/ FinalChunk
    \/ FinalMarkRead
    \/ FinalMarkWrite
    \/ FinalClearRead
    \/ FinalClearWrite
    \/ FinalPassEnds
    \/ StopCleanup
    \/ ProcessExit

ShutdownNext == PeriodicThread \/ StopCalled \/ MainThreadStopping

\* a service that clears the store after a pass, with up to two records
\* in it
ShutdownInit == LoopInit /\ cleanup_after_sync

ShutdownSpec ==
    /\ ShutdownInit
    /\ [][ShutdownNext]_vars
    /\ WF_vars(PeriodicThread)
    /\ WF_vars(MainThreadStopping)

\* C38: the periodic thread and the main thread are never both inside
\* sync_offline_records
C38_OnePassAtATime ==
    ~ (/\ sync_thread = "looping"
       /\ sync_pc \in InPass
       /\ final.pc \in InPass)

\* C31: the periodic thread stops looping only in the step that ends an
\* iteration, and only with running false; an iteration that ends with
\* running false is the last; and once running is false the thread goes
\* on to the end of its iteration and leaves the loop there
C31_ShutdownAtBoundary ==
    /\ [][(sync_thread = "looping" /\ sync_thread' # "looping")
            => (sync_pc \in InIteration /\ sync_pc' = "sleep" /\ ~ running)]_vars
    /\ [][(sync_pc \in InIteration /\ sync_pc' = "sleep" /\ ~ running)
            => sync_thread' = "exited"]_vars
    /\ (~ running) ~> (sync_thread = "exited")

(***************************************************************************)
(* The store and the sync client across restarts of the process            *)
(* (RestartSpec).                                                          *)
(***************************************************************************)
\* a start that writes a new, empty file whatever it finds
ensure_storage_file_resets(state, contents) == <<>>

\* _ensure_storage_file, lines 38-42: the contents of the file after the
\* constructor; [] is written only if the file does not exist
ensure_storage_file(state, contents) ==
    IF state = "missing" THEN <<>> ELSE contents

\* check_connection, lines 80-105
ClientCheck ==
    /\ \E online \in BOOLEAN : is_online' = online
    /\ last_check' = "set"
    /\ UNCHANGED <<storage_file, file_state, config, last_sync, probe, call,
                   h_adds, service_idle, dash_vars,
                   life_vars, shut_vars>>

\* send_batch_attendance, lines 160-187: a batch answered 200 or 201
ClientBatchAccepted ==
    /\ last_sync' = "set"
    /\ UNCHANGED <<storage_file, file_state, config, is_online, last_check,
                   probe, call, h_adds, service_idle, dash_vars,
                   life_vars, shut_vars>>

\* the process ends between two calls and is started again:
\* OfflineStorage.__init__ and APISync.__init__ run over the file the
\* earlier process left
Restart ==
    /\ storage_file' = ensure_storage_file(file_state, storage_file)
    /\ file_state' = IF file_state = "missing" THEN "ok" ELSE file_state
    /\ is_online' = FALSE
    /\ last_check' = None
    /\ last_sync' = None
    /\ call' = [op |-> "restart", arg |-> None,
                returned |-> None, dropped |-> <<>>,
                before |-> storage_file, state |-> file_state]
    /\ UNCHANGED <<config, probe, h_adds, service_idle, dash_vars,
                   life_vars, shut_vars>>

\* a process started over the file an earlier process left
RestartInit ==
    /\ Idle
    /\ storage_file \in PassStores
    /\ file_state = "ok"
    /\ max_records \in PassCapacities
    /\ batch_size = 50
    /\ immediate_sync = FALSE
    /\ min_records_for_sync = 1
    /\ cleanup_after_sync = TRUE
    /\ h_adds = [only_adds |-> FALSE, records |-> <<>>]

RestartNext ==
    \/ Damage
    \/ ClientCheck
    \/ ClientBatchAccepted
    \/ Restart

RestartSpec == RestartInit /\ [][RestartNext]_vars

\* C25: a restart over a well-formed file leaves the file's records, their
\* order and their synced flags as they were; a restart writes the empty
\* list only over a file that does not exist; after every restart
\* is_online is False and last_check and last_sync are None
C25_StoreSurvivesRestart ==
    [][Restart =>
        /\ file_state = "ok" =>
              (storage_file' = storage_file /\ file_state' = "ok")
        /\ <<storage_file, file_state>>' # <<storage_file, file_state>> =>
              /\ file_state = "missing"
              /\ storage_file' = <<>>
              /\ file_state' = "ok"
        /\ is_online' = FALSE
        /\ last_check' = None
        /\ last_sync' = None]_vars

\* a restart found a file of two records, one of them synced, and left the
\* file as it was and the client reset
C25_Witness ==
    /\ call.op = "restart"
    /\ call.state = "ok"
    /\ Len(call.before) = 2
    /\ \E i, j \in 1..2 :
          NotSynced(call.before[i]) /\ ~ NotSynced(call.before[j])
    /\ storage_file = call.before
    /\ is_online = FALSE

\* a step in which an operation of the store is called
CallMade == IF call'.op # call.op THEN TRUE ELSE call' # call

(***************************************************************************)
(* Properties of the store on a medium that damages the file (DamageSpec). *)
(***************************************************************************)
\* C24: a read (get_unsynced_records, get_all_records, get_stats) of a file
\* that is damaged or missing returns what it returns on an empty store and
\* leaves the file alone; an add_record on such a file leaves a well-formed
\* file holding exactly the new record; an add_record on a well-formed file
\* keeps every record it does not trim for capacity
C24_CorruptTreatedAsEmpty ==
    [][CallMade =>
        /\ (call'.state # "ok"
              /\ call'.op \in {"get_unsynced_records", "get_all_records"})
             => /\ call'.returned = <<>>
                /\ UNCHANGED <<storage_file, file_state>>
        /\ (call'.state # "ok" /\ call'.op = "get_stats")
             => /\ call'.returned = get_stats(<<>>, max_records)
                /\ UNCHANGED <<storage_file, file_state>>
        /\ (call'.state # "ok" /\ call'.op = "add_record")
             => /\ file_state' = "ok"
                /\ Len(storage_file') = 1
                /\ StoredAs(storage_file'[1], call'.arg)
        /\ (call'.state = "ok" /\ call'.op = "add_record")
             => /\ Range(call'.before) \ Range(call'.dropped)
                      \subseteq Range(storage_file')
                /\ Len(call'.dropped)
                      = IF Len(call'.before) < max_records THEN 0
                        ELSE Len(call'.before) + 1 - max_records]_vars

\* an add_record on a damaged file that held a backlog has left one record
C24_Witness ==
    /\ call.op = "add_record"
    /\ call.state = "corrupt"
    /\ call.before # <<>>
    /\ file_state = "ok"
    /\ Len(storage_file) = 1

\* C34: get_stats leaves the file as it was; its synced and unsynced counts
\* add up to its total and its capacity is max_records; on a well-formed
\* file its total is the number of records stored and its synced count the
\* number of records stored as synced
C34_StatsReadOnlyConsistent ==
    [][(CallMade /\ call'.op = "get_stats") =>
        /\ UNCHANGED <<storage_file, file_state>>
        /\ call'.returned.synced_records + call'.returned.unsynced_records
              = call'.returned.total_records
        /\ call'.returned.max_capacity = max_records
        /\ file_state = "ok" =>
              /\ call'.returned.total_records = Len(storage_file)
              /\ call'.returned.synced_records
                    = Cardinality({i \in 1..Len(storage_file) :
                                      ~ NotSynced(storage_file[i])})]_vars

\* get_stats has returned on a well-formed file of two records, one synced
C34_Witness ==
    /\ call.op = "get_stats"
    /\ call.state = "ok"
    /\ call.returned.total_records = 2
    /\ call.returned.synced_records = 1
    /\ Len(storage_file) = 2

(***************************************************************************)
(* Properties of one add_record at every capacity (TrimSpec).              *)
(***************************************************************************)
\* C40: an add_record that finds max_records records or more writes
\* exactly max_records records, the last ones of the list it read followed
\* by the new record; with max_records = 0 it writes the empty list
C40_TrimExact ==
    (call.op = "add_record" /\ Len(call.before) + 1 > max_records) =>
        /\ Len(storage_file) = max_records
        /\ \A i \in 1..Len(storage_file) :
              IF i = max_records
              THEN StoredAs(storage_file[i], call.arg)
              ELSE storage_file[i]
                     = call.before[Len(call.before) + 1 - max_records + i]

====
